---- MODULE Spec2Model ----
(***************************************************************************)
(* The Spotify 2025 ETL script (spotify_etl.py) as a state machine.  The   *)
(* script is one sequential pass: load, filter on the year, build the      *)
(* dataframe, clean, enrich, aggregate, compute the KPIs, export.  Each    *)
(* STEP of the script is one action; an uncaught exception ends the run in *)
(* pc = "aborted" (traceback, exit status 1).                              *)
(***************************************************************************)
EXTENDS Integers, Sequences, FiniteSets, TLC

VARIABLES
    file_state,       \* the source file on disk: "ok", "missing" or "malformed"
    source,           \* the JSON array the file holds
    pc,               \* the step the script is about to run
    data,             \* json.load(f)
    data_2025,        \* the records kept by the year filter
    df,               \* the dataframe, a sequence of rows
    skipped_dtype,    \* dtype of df['skipped']: "bool" or "object"
    daily_summary,
    artist_summary,
    track_summary,
    hourly_pattern,
    weekly_pattern,
    monthly_progression,
    platform_dist,
    kpi,              \* the scalars of STEP 7
    output_dir,       \* TRUE once the script has seen or made the output directory
    exported,         \* the files written so far, in order: <<filename, table>>
    error,            \* the exception that ended the run, "" if none
    failed_step,      \* the step that raised it
    exit_status       \* -1 while running, then the process's exit status

vars == <<file_state, source, pc, data, data_2025, df, skipped_dtype,
          daily_summary, artist_summary, track_summary, hourly_pattern,
          weekly_pattern, monthly_progression, platform_dist, kpi,
          output_dir, exported, error, failed_step, exit_status>>

tablevars == <<daily_summary, artist_summary, track_summary, hourly_pattern,
               weekly_pattern, monthly_progression, platform_dist>>

-----------------------------------------------------------------------------
(* Bounds *)

\* the longest source array explored
MaxLen == 3

-----------------------------------------------------------------------------
(* JSON values.  null and a key that the record does not have are tokens;  *)
(* a JSON boolean is "true" / "false"; a timestamp is a string, read       *)
(* through Chars as its sequence of characters.                            *)

NULL == "<null>"
ABSENT == "<absent>"

Chars ==
   "2025-01-06T10:00:00Z" :> <<"2", "0", "2", "5", "-", "0", "1", "-", "0", "6", "T", "1", "0", ":", "0", "0", ":", "0", "0", "Z">> @@
   "2025-01-10T23:30:00Z" :> <<"2", "0", "2", "5", "-", "0", "1", "-", "1", "0", "T", "2", "3", ":", "3", "0", ":", "0", "0", "Z">> @@
   "2024-12-31T23:59:59Z" :> <<"2", "0", "2", "4", "-", "1", "2", "-", "3", "1", "T", "2", "3", ":", "5", "9", ":", "5", "9", "Z">> @@
   "2025-13-45T10:00:00Z" :> <<"2", "0", "2", "5", "-", "1", "3", "-", "4", "5", "T", "1", "0", ":", "0", "0", ":", "0", "0", "Z">> @@
   "N/A" :> <<"N", "/", "A">>

Digit ==
   "0" :> 0 @@ "1" :> 1 @@ "2" :> 2 @@ "3" :> 3 @@ "4" :> 4 @@
   "5" :> 5 @@ "6" :> 6 @@ "7" :> 7 @@ "8" :> 8 @@ "9" :> 9

IsDigit(c) == c \in DOMAIN Digit

\* a typical record of the export
BaseRecord ==
    [ts |-> "2025-01-06T10:00:00Z",
     master_metadata_track_name |-> "T1",
     master_metadata_album_artist_name |-> "A1",
     master_metadata_album_album_name |-> "Al1",
     ms_played |-> 180000,
     skipped |-> "false",
     shuffle |-> "false",
     offline |-> "false",
     incognito_mode |-> "false",
     platform |-> "ios",
     conn_country |-> "US",
     reason_end |-> "trackdone"]

\* a podcast episode of an older export: no track, no artist, no album, and
\* no skipped flag
PodcastRecord ==
    [BaseRecord EXCEPT !.master_metadata_track_name = NULL,
                       !.master_metadata_album_artist_name = NULL,
                       !.master_metadata_album_album_name = NULL,
                       !.skipped = NULL]

TsValues == (DOMAIN Chars) \cup {NULL, ABSENT}

\* the records of the source: the typical record changed in one field
Records ==
    {[BaseRecord EXCEPT !.ts = t] : t \in TsValues}
    \cup {[BaseRecord EXCEPT !.master_metadata_track_name = v] : v \in {NULL}}
    \cup {[BaseRecord EXCEPT !.master_metadata_album_artist_name = v] : v \in {NULL, "A2"}}
    \cup {[BaseRecord EXCEPT !.skipped = v] : v \in {"true", NULL}}
    \cup {[BaseRecord EXCEPT !.platform = v] : v \in {NULL, "android"}}
    \cup {PodcastRecord}

SeqsUpTo(S, n) == UNION {[1..k -> S] : k \in 0..n}

-----------------------------------------------------------------------------
(* Python and pandas primitives *)

\* s[:n]
Prefix(s, n) == SubSeq(s, 1, IF Len(s) < n THEN Len(s) ELSE n)

RECURSIVE LStrip(_)
LStrip(s) == IF s # <<>> /\ s[1] = " " THEN LStrip(Tail(s)) ELSE s

RECURSIVE RStrip(_)
RStrip(s) ==
    IF s # <<>> /\ s[Len(s)] = " " THEN RStrip(SubSeq(s, 1, Len(s) - 1)) ELSE s

RECURSIVE DigitsValue(_)
DigitsValue(s) ==
    IF s = <<>> THEN 0
    ELSE 10 * DigitsValue(SubSeq(s, 1, Len(s) - 1)) + Digit[s[Len(s)]]

\* int(s) of a str: surrounding blanks and one sign are accepted, then
\* decimal digits only; anything else raises ValueError (ok = FALSE)
PyInt(s) ==
    LET t == RStrip(LStrip(s))
        signed == t # <<>> /\ t[1] \in {"+", "-"}
        body == IF signed THEN Tail(t) ELSE t
    IN  IF body = <<>> \/ \E i \in 1..Len(body) : ~IsDigit(body[i])
        THEN [ok |-> FALSE, val |-> 0]
        ELSE [ok |-> TRUE,
              val |-> IF signed /\ t[1] = "-" THEN 0 - DigitsValue(body)
                      ELSE DigitsValue(body)]

\* truthiness of record.get('ts'): None (also when the key is absent) and
\* the empty string are falsy
Truthy(v) == v # NULL /\ v # ABSENT /\ Chars[v] # <<>>

-----------------------------------------------------------------------------
\* the state before the script starts
NoTable == <<>>

NoKpi == [computed |-> FALSE]

Init ==
    /\ \/ file_state \in {"missing", "malformed"} /\ source = <<>>
       \/ file_state = "ok" /\ source \in SeqsUpTo(Records, MaxLen)
    /\ pc = "load"
    /\ data = <<>>
    /\ data_2025 = <<>>
    /\ df = <<>>
    /\ skipped_dtype = "bool"
    /\ daily_summary = NoTable
    /\ artist_summary = NoTable
    /\ track_summary = NoTable
    /\ hourly_pattern = NoTable
    /\ weekly_pattern = NoTable
    /\ monthly_progression = NoTable
    /\ platform_dist = NoTable
    /\ kpi = NoKpi
    /\ output_dir = FALSE
    /\ exported = <<>>
    /\ error = ""
    /\ failed_step = ""
    /\ exit_status = -1

\* an uncaught exception: the interpreter prints the traceback and exits 1
Raise(exc) ==
    /\ pc' = "aborted"
    /\ error' = exc
    /\ failed_step' = pc
    /\ exit_status' = 1

-----------------------------------------------------------------------------
(* STEP 1: load *)

Load ==
    /\ pc = "load"
    /\ \/ /\ file_state = "ok"
          /\ data' = source
          /\ pc' = "filter"
          /\ UNCHANGED <<error, failed_step, exit_status>>
       \/ /\ file_state = "missing"
          \* except FileNotFoundError: the message, then exit() with no argument
          /\ pc' = "exited"
          /\ error' = "FileNotFoundError"
          /\ failed_step' = pc
          /\ exit_status' = 0
          /\ UNCHANGED data
       \/ /\ file_state = "malformed"
          /\ Raise("JSONDecodeError")
          /\ UNCHANGED data
    /\ UNCHANGED <<file_state, source, data_2025, df, skipped_dtype, tablevars,
                   kpi, output_dir, exported>>

-----------------------------------------------------------------------------
(* STEP 2: the year filter *)

\* the year test with the bound of the file name (2024-2025) in it
IsYearOfFile(year) == year >= 2024

\* line 31: the test on the year
IsTargetYear(year) == year = 2025

\* the loop of lines 27-32 over a list: the kept records, or the ValueError
\* of int() at the first record whose ts[:4] is no integer
RECURSIVE FilterLoop(_, _)
FilterLoop(rest, kept) ==
    IF rest = <<>> THEN [ok |-> TRUE, out |-> kept]
    ELSE LET record == Head(rest) IN
         IF ~Truthy(record.ts) THEN FilterLoop(Tail(rest), kept)
         ELSE LET year == PyInt(Prefix(Chars[record.ts], 4)) IN
              IF ~year.ok THEN [ok |-> FALSE, out |-> kept]
              ELSE IF IsTargetYear(year.val)
                   THEN FilterLoop(Tail(rest), Append(kept, record))
                   ELSE FilterLoop(Tail(rest), kept)

Filter ==
    /\ pc = "filter"
    /\ LET r == FilterLoop(data, <<>>) IN
       IF r.ok
       THEN /\ data_2025' = r.out
            /\ pc' = "dataframe"
            /\ UNCHANGED <<error, failed_step, exit_status>>
       ELSE /\ data_2025' = r.out
            /\ Raise("ValueError")
    /\ UNCHANGED <<file_state, source, data, df, skipped_dtype, tablevars,
                   kpi, output_dir, exported>>

-----------------------------------------------------------------------------
(* STEP 3: the base dataframe *)

cols_to_keep ==
    <<"ts", "master_metadata_track_name", "master_metadata_album_artist_name",
      "master_metadata_album_album_name", "ms_played", "skipped", "shuffle",
      "offline", "incognito_mode", "platform", "conn_country", "reason_end">>

\* ms_played is a number in every record of the model; the other columns hold
\* strings and the tokens
NumericCols == {"ms_played"}

\* the cell pandas puts where a record has no such key
NAN == "<nan>"

HasKey(record, c) == c \in NumericCols \/ record[c] # ABSENT

\* pd.DataFrame(list of dicts): one column per key that occurs
Columns(records) ==
    {c \in DOMAIN BaseRecord : \E i \in 1..Len(records) : HasKey(records[i], c)}

Cell(record, c) == IF HasKey(record, c) THEN record[c] ELSE NAN

FrameRow(record) == [c \in DOMAIN BaseRecord |-> Cell(record, c)]

\* a column of booleans only is of dtype bool, any other one of dtype object
InferDtype(rows, c) ==
    IF \A i \in 1..Len(rows) : rows[i][c] \in {"true", "false"}
    THEN "bool" ELSE "object"

CreateDataFrame ==
    /\ pc = "dataframe"
    /\ IF \A k \in 1..Len(cols_to_keep) : cols_to_keep[k] \in Columns(data_2025)
       THEN /\ df' = [i \in 1..Len(data_2025) |-> FrameRow(data_2025[i])]
            /\ skipped_dtype' = InferDtype(df', "skipped")
            /\ pc' = "clean"
            /\ UNCHANGED <<error, failed_step, exit_status>>
       ELSE \* df[cols_to_keep] on a frame that lacks one of the columns
            /\ Raise("KeyError")
            /\ UNCHANGED <<df, skipped_dtype>>
    /\ UNCHANGED <<file_state, source, data, data_2025, tablevars, kpi,
                   output_dir, exported>>

-----------------------------------------------------------------------------
(* STEP 4: cleaning *)

\* Series.notna(): None and NaN are missing
IsNA(v) == v \in {NULL, NAN}

\* notna that tests the track column whatever column it is asked about
notnaTrackOnly(rows, c) ==
    SelectSeq(rows, LAMBDA r : ~IsNA(r.master_metadata_track_name))

notna(rows, c) == SelectSeq(rows, LAMBDA r : ~IsNA(r[c]))

\* two cells that drop_duplicates takes for the same value: equal, or both
\* missing
SameCell(a, b, c) ==
    IF c \in NumericCols THEN a[c] = b[c]
    ELSE a[c] = b[c] \/ (IsNA(a[c]) /\ IsNA(b[c]))

SameRow(a, b) == \A k \in 1..Len(cols_to_keep) : SameCell(a, b, cols_to_keep[k])

\* drop_duplicates with keep='last'
RECURSIVE drop_duplicates_keep_last(_)
drop_duplicates_keep_last(rows) ==
    IF rows = <<>> THEN <<>>
    ELSE IF \E i \in 2..Len(rows) : SameRow(rows[i], rows[1])
         THEN drop_duplicates_keep_last(Tail(rows))
         ELSE <<rows[1]>> \o drop_duplicates_keep_last(Tail(rows))

\* DataFrame.drop_duplicates(), keep='first'
RECURSIVE drop_duplicates(_)
drop_duplicates(rows) ==
    IF rows = <<>> THEN <<>>
    ELSE LET init == drop_duplicates(SubSeq(rows, 1, Len(rows) - 1))
             last == rows[Len(rows)]
         IN  IF \E i \in 1..(Len(rows) - 1) : SameRow(rows[i], last)
             THEN init ELSE Append(init, last)

Clean ==
    /\ pc = "clean"
    /\ df' = drop_duplicates(
                notna(notna(df, "master_metadata_track_name"),
                      "master_metadata_album_artist_name"))
    /\ pc' = "enrich"
    /\ UNCHANGED <<file_state, source, data, data_2025, skipped_dtype,
                   tablevars, kpi, output_dir, exported, error, failed_step,
                   exit_status>>

-----------------------------------------------------------------------------
(* STEP 5: feature engineering *)

IsLeap(y) == (y % 4 = 0 /\ y % 100 # 0) \/ y % 400 = 0

DaysInMonth(y, m) ==
    IF m = 2 THEN (IF IsLeap(y) THEN 29 ELSE 28)
    ELSE IF m \in {4, 6, 9, 11} THEN 30 ELSE 31

\* pd.to_datetime of one string of the source's format,
\* YYYY-MM-DDTHH:MM:SSZ; a string that is no date raises (ok = FALSE)
to_datetime(ts) ==
    LET s == Chars[ts]
        num(i, j) == DigitsValue(SubSeq(s, i, j))
        shaped == /\ Len(s) = 20
                  /\ s[5] = "-" /\ s[8] = "-" /\ s[11] = "T"
                  /\ s[14] = ":" /\ s[17] = ":" /\ s[20] = "Z"
                  /\ \A i \in {1, 2, 3, 4, 6, 7, 9, 10, 12, 13, 15, 16, 18, 19} :
                        IsDigit(s[i])
    IN  IF shaped /\ num(6, 7) \in 1..12
                  /\ num(9, 10) \in 1..DaysInMonth(num(1, 4), num(6, 7))
                  /\ num(12, 13) \in 0..23
                  /\ num(15, 16) \in 0..59
                  /\ num(18, 19) \in 0..59
        THEN [ok |-> TRUE, year |-> num(1, 4), month |-> num(6, 7),
              day |-> num(9, 10), hour |-> num(12, 13),
              minute |-> num(15, 16), second |-> num(18, 19)]
        ELSE [ok |-> FALSE, year |-> 0, month |-> 0, day |-> 0, hour |-> 0,
              minute |-> 0, second |-> 0]

\* .dt.dayofweek: Monday = 0 .. Sunday = 6
dayofweek(dt) ==
    LET t == <<0, 3, 2, 5, 0, 3, 5, 1, 4, 6, 2, 4>>
        y == IF dt.month < 3 THEN dt.year - 1 ELSE dt.year
        sunday0 == (y + y \div 4 - y \div 100 + y \div 400
                    + t[dt.month] + dt.day) % 7
    IN  (sunday0 + 6) % 7

\* .dt.day_name() and strftime('%A')
WeekdayNames ==
    <<"Monday", "Tuesday", "Wednesday", "Thursday", "Friday", "Saturday",
      "Sunday">>

MonthNames ==
    <<"January", "February", "March", "April", "May", "June", "July",
      "August", "September", "October", "November", "December">>

RECURSIVE DayOfYear(_, _, _)
DayOfYear(y, m, d) ==
    IF m = 1 THEN d ELSE DaysInMonth(y, m - 1) + DayOfYear(y, m - 1, d)

WeeksInYear(y) ==
    LET p(x) == (x + x \div 4 - x \div 100 + x \div 400) % 7
    IN  IF p(y) = 4 \/ p(y - 1) = 3 THEN 53 ELSE 52

\* .dt.isocalendar().week
isoweek(dt) ==
    LET w == (DayOfYear(dt.year, dt.month, dt.day) - (dayofweek(dt) + 1) + 10)
                \div 7
    IN  IF w < 1 THEN WeeksInYear(dt.year - 1)
        ELSE IF w > WeeksInYear(dt.year) THEN 1 ELSE w

\* .dt.date, as the number YYYYMMDD (dates compare as these numbers do)
DateOf(dt) == dt.year * 10000 + dt.month * 100 + dt.day

\* ~ on one cell of df['skipped'] followed by astype(int).  On a bool column
\* ~ is the logical not; on an object column it is Python's ~ on the cell,
\* and ~True = -2, ~False = -1
InvertAsInt(v, dtype) ==
    IF dtype = "bool" THEN (IF v = "true" THEN 0 ELSE 1)
    ELSE (IF v = "true" THEN -2 ELSE -1)

\* astype(int) on one boolean cell
BoolAsInt(v) == IF v = "true" THEN 1 ELSE 0

\* the row after lines 69-91; minutes_played is in thousandths of a minute
EnrichRow(r, dtype) ==
    LET dt == to_datetime(r.ts) IN
    [ts |-> r.ts,
     track_name |-> r.master_metadata_track_name,
     artist_name |-> r.master_metadata_album_artist_name,
     album_name |-> r.master_metadata_album_album_name,
     ms_played |-> r.ms_played,
     skipped |-> r.skipped,
     shuffle |-> r.shuffle,
     offline |-> r.offline,
     incognito_mode |-> r.incognito_mode,
     platform |-> r.platform,
     conn_country |-> r.conn_country,
     reason_end |-> r.reason_end,
     datetime |-> dt,
     date |-> DateOf(dt),
     hour |-> dt.hour,
     day_of_week |-> WeekdayNames[dayofweek(dt) + 1],
     day_of_week_num |-> dayofweek(dt),
     week_number |-> isoweek(dt),
     month |-> dt.month,
     month_name |-> MonthNames[dt.month],
     day_name |-> WeekdayNames[dayofweek(dt) + 1],
     minutes_played |-> (r.ms_played * 1000) \div 60000,
     was_completed |-> InvertAsInt(r.skipped, dtype),
     was_skipped |-> BoolAsInt(r.skipped)]

Enrich ==
    /\ pc = "enrich"
    /\ IF \E i \in 1..Len(df) : ~to_datetime(df[i].ts).ok
       THEN \* line 69: a string of the column is no date
            /\ Raise("ValueError")
            /\ UNCHANGED df
       ELSE IF \E i \in 1..Len(df) : IsNA(df[i].skipped)
       THEN \* line 83: ~ on a None or NaN cell of an object column
            /\ Raise("TypeError")
            /\ UNCHANGED df
       ELSE /\ df' = [i \in 1..Len(df) |-> EnrichRow(df[i], skipped_dtype)]
            /\ pc' = "aggregate"
            /\ UNCHANGED <<error, failed_step, exit_status>>
    /\ UNCHANGED <<file_state, source, data, data_2025, skipped_dtype,
                   tablevars, kpi, output_dir, exported>>

-----------------------------------------------------------------------------
(* STEP 6: the aggregation tables *)

\* the strings that serve as group keys, in Python's string order
StrOrder ==
    <<"A1", "A2", "Friday", "Monday", "Saturday", "Sunday", "T1", "Thursday",
      "Tuesday", "Wednesday", "android", "ios">>

StrRank(v) == CHOOSE i \in 1..Len(StrOrder) : StrOrder[i] = v

RECURSIVE SumSeq(_)
SumSeq(s) == IF s = <<>> THEN 0 ELSE Head(s) + SumSeq(Tail(s))

\* agg 'sum' of a column
Sum(rows, col) == SumSeq([i \in 1..Len(rows) |-> rows[i][col]])

\* agg 'count' of a string column: the cells that are not missing
Count(rows, col) == Len(notna(rows, col))

Values(rows, col) == {rows[i][col] : i \in 1..Len(rows)}

\* agg 'nunique' of a string column: the distinct values, missing ones apart
NUnique(rows, col) == Cardinality({v \in Values(rows, col) : ~IsNA(v)})

\* agg 'nunique', 'min' and 'max' of the date column
NUniqueDates(rows) == Cardinality(Values(rows, "date"))

MinDate(rows) == CHOOSE d \in Values(rows, "date") :
                    \A e \in Values(rows, "date") : d <= e

MaxDate(rows) == CHOOSE d \in Values(rows, "date") :
                    \A e \in Values(rows, "date") : e <= d

\* round(num / den, 0) as numpy rounds, halves to the even neighbour; the
\* callers scale num and den so that the result is in hundredths
Round(num, den) ==
    LET q == num \div den
        r == num % den
    IN  IF 2 * r < den THEN q
        ELSE IF 2 * r > den THEN q + 1
        ELSE IF q % 2 = 0 THEN q ELSE q + 1

\* (a / b * 100).round(2), in hundredths
Rate(a, b) == Round(a * 10000, b)

\* (total_minutes / 60).round(2), in hundredths of an hour
Hours(total_minutes) == Round(total_minutes, 600)

\* sort_values(by), ascending or not, on a short frame: rows with equal keys
\* keep their order
SortValues(rows, by, ascending) ==
    LET n == Len(rows)
        before(j, i) ==
            \/ (IF ascending THEN rows[j][by] < rows[i][by]
                ELSE rows[j][by] > rows[i][by])
            \/ (rows[j][by] = rows[i][by] /\ j < i)
        pos(i) == 1 + Cardinality({j \in 1..n : before(j, i)})
    IN  [p \in 1..n |-> rows[CHOOSE i \in 1..n : pos(i) = p]]

RECURSIVE SortedRanks(_)
SortedRanks(S) ==
    IF S = {} THEN <<>>
    ELSE LET m == CHOOSE x \in S : \A y \in S : x <= y
         IN  <<m>> \o SortedRanks(S \ {m})

\* the rank of the group key of a row whose key is missing
NoKey == 0 - 1

\* the rank of a string key
StrKey(v) == IF IsNA(v) THEN NoKey ELSE StrRank(v)

\* the rows whose key has the rank k, in their order
RECURSIVE RowsOfKey(_, _, _)
RowsOfKey(rows, keys, k) ==
    IF rows = <<>> THEN <<>>
    ELSE (IF Head(keys) = k THEN <<Head(rows)>> ELSE <<>>)
         \o RowsOfKey(Tail(rows), Tail(keys), k)

\* groupby with its defaults sort=True, dropna=True: keys[i] is the rank of
\* the key of rows[i]; the groups, each the rows of one key, in ascending
\* order of the keys, the rows without key left out
GroupBy(rows, keys) ==
    LET ranks == SortedRanks({keys[i] : i \in 1..Len(rows)} \ {NoKey})
    IN  [k \in 1..Len(ranks) |-> RowsOfKey(rows, keys, ranks[k])]

DailyRow(g) ==
    [date |-> g[1].date,
     total_minutes |-> Sum(g, "minutes_played"),
     tracks_played |-> Count(g, "track_name"),
     skips |-> Sum(g, "was_skipped"),
     completions |-> Sum(g, "was_completed"),
     unique_artists |-> NUnique(g, "artist_name"),
     skip_rate |-> Rate(Sum(g, "was_skipped"), Count(g, "track_name")),
     hours_played |-> Hours(Sum(g, "minutes_played"))]

ArtistRow(g) ==
    [artist_name |-> g[1].artist_name,
     total_minutes |-> Sum(g, "minutes_played"),
     track_count |-> NUnique(g, "track_name"),
     plays |-> Count(g, "track_name"),
     skips |-> Sum(g, "was_skipped"),
     first_play |-> MinDate(g),
     last_play |-> MaxDate(g),
     skip_rate |-> Rate(Sum(g, "was_skipped"), Count(g, "track_name")),
     hours_played |-> Hours(Sum(g, "minutes_played"))]

TrackRow(g) ==
    [track_name |-> g[1].track_name,
     artist_name |-> g[1].artist_name,
     total_minutes |-> Sum(g, "minutes_played"),
     play_count |-> Count(g, "track_name"),
     skips |-> Sum(g, "was_skipped"),
     completions |-> Sum(g, "was_completed"),
     first_play |-> MinDate(g),
     last_play |-> MaxDate(g),
     skip_rate |-> Rate(Sum(g, "was_skipped"), Count(g, "track_name"))]

HourlyRow(g) ==
    [hour |-> g[1].hour,
     total_minutes |-> Sum(g, "minutes_played"),
     track_count |-> Count(g, "track_name"),
     skips |-> Sum(g, "was_skipped"),
     unique_artists |-> NUnique(g, "artist_name"),
     avg_minutes_per_session |->
        Round(Sum(g, "minutes_played"), 10 * Count(g, "track_name")),
     skip_rate |-> Rate(Sum(g, "was_skipped"), Count(g, "track_name"))]

day_order == WeekdayNames

\* day_order.index(x)
DayIndex(x) == (CHOOSE i \in 1..Len(day_order) : day_order[i] = x) - 1

WeeklyRow(g) ==
    [day_name |-> g[1].day_name,
     total_minutes |-> Sum(g, "minutes_played"),
     track_count |-> Count(g, "track_name"),
     skips |-> Sum(g, "was_skipped"),
     unique_artists |-> NUnique(g, "artist_name"),
     skip_rate |-> Rate(Sum(g, "was_skipped"), Count(g, "track_name")),
     day_order |-> DayIndex(g[1].day_name)]

MonthlyRow(g) ==
    [month |-> g[1].month,
     total_minutes |-> Sum(g, "minutes_played"),
     tracks_played |-> Count(g, "track_name"),
     skips |-> Sum(g, "was_skipped"),
     unique_artists |-> NUnique(g, "artist_name"),
     unique_tracks |-> NUnique(g, "track_name"),
     days_with_listening |-> NUniqueDates(g),
     hours_played |-> Hours(Sum(g, "minutes_played")),
     skip_rate |-> Rate(Sum(g, "was_skipped"), Count(g, "track_name")),
     month_name |-> MonthNames[g[1].month]]

PlatformRow(g) ==
    [platform |-> g[1].platform,
     total_minutes |-> Sum(g, "minutes_played"),
     track_count |-> Count(g, "track_name")]

DailySummary(rows) ==
    LET g == GroupBy(rows, [i \in 1..Len(rows) |-> rows[i].date])
    IN  SortValues([k \in 1..Len(g) |-> DailyRow(g[k])], "date", TRUE)

ArtistSummary(rows) ==
    LET g == GroupBy(rows, [i \in 1..Len(rows) |-> StrKey(rows[i].artist_name)])
    IN  SortValues([k \in 1..Len(g) |-> ArtistRow(g[k])], "total_minutes", FALSE)

\* the rank of the pair (track_name, artist_name)
TrackKey(r) ==
    IF IsNA(r.track_name) \/ IsNA(r.artist_name) THEN NoKey
    ELSE StrRank(r.track_name) * (Len(StrOrder) + 1) + StrRank(r.artist_name)

TrackSummary(rows) ==
    LET g == GroupBy(rows, [i \in 1..Len(rows) |-> TrackKey(rows[i])])
    IN  SortValues([k \in 1..Len(g) |-> TrackRow(g[k])], "total_minutes", FALSE)

HourlyPattern(rows) ==
    LET g == GroupBy(rows, [i \in 1..Len(rows) |-> rows[i].hour])
    IN  [k \in 1..Len(g) |-> HourlyRow(g[k])]

\* the weekly table left in the order of the groupby
WeeklyPatternUnsorted(rows) ==
    LET g == GroupBy(rows, [i \in 1..Len(rows) |-> StrKey(rows[i].day_name)])
    IN  [k \in 1..Len(g) |-> WeeklyRow(g[k])]

WeeklyPattern(rows) ==
    LET g == GroupBy(rows, [i \in 1..Len(rows) |-> StrKey(rows[i].day_name)])
    IN  SortValues([k \in 1..Len(g) |-> WeeklyRow(g[k])], "day_order", TRUE)

MonthlyProgression(rows) ==
    LET g == GroupBy(rows, [i \in 1..Len(rows) |-> rows[i].month])
    IN  [k \in 1..Len(g) |-> MonthlyRow(g[k])]

PlatformDist(rows) ==
    LET g == GroupBy(rows, [i \in 1..Len(rows) |-> StrKey(rows[i].platform)])
        t == [k \in 1..Len(g) |-> PlatformRow(g[k])]
        total == Sum(t, "track_count")
        withpct == [i \in 1..Len(t) |->
                      [platform |-> t[i].platform,
                       total_minutes |-> t[i].total_minutes,
                       track_count |-> t[i].track_count,
                       percentage |-> Rate(t[i].track_count, total)]]
    IN  SortValues(withpct, "track_count", FALSE)

Aggregate ==
    /\ pc = "aggregate"
    /\ daily_summary' = DailySummary(df)
    /\ artist_summary' = ArtistSummary(df)
    /\ track_summary' = TrackSummary(df)
    /\ hourly_pattern' = HourlyPattern(df)
    /\ weekly_pattern' = WeeklyPattern(df)
    /\ monthly_progression' = MonthlyProgression(df)
    /\ platform_dist' = PlatformDist(df)
    /\ pc' = "kpi"
    /\ UNCHANGED <<file_state, source, data, data_2025, df, skipped_dtype, kpi,
                   output_dir, exported, error, failed_step, exit_status>>

-----------------------------------------------------------------------------
(* STEP 7: the KPIs *)

\* a / b in floating point: 0 / 0 is NaN (numpy warns and goes on)
Div(a, b) ==
    IF b = 0 THEN [nan |-> TRUE, num |-> 0, den |-> 0]
    ELSE [nan |-> FALSE, num |-> a, den |-> b]

KPIs ==
    /\ pc = "kpi"
    /\ kpi' = [computed |-> TRUE,
               total_minutes |-> Sum(df, "minutes_played"),
               total_hours |-> Div(Sum(df, "minutes_played"), 60),
               total_tracks |-> Len(df),
               unique_artists |-> NUnique(df, "artist_name"),
               unique_tracks |-> NUnique(df, "track_name"),
               skip_rate |-> Div(Sum(df, "was_skipped") * 100, Len(df)),
               completion_rate |-> Div(Sum(df, "was_completed") * 100, Len(df)),
               listening_days |-> NUniqueDates(df),
               avg_daily_minutes |->
                   Div(Sum(df, "minutes_played"), NUniqueDates(df))]
    /\ pc' = "mkdir"
    /\ UNCHANGED <<file_state, source, data, data_2025, df, skipped_dtype,
                   tablevars, output_dir, exported, error, failed_step,
                   exit_status>>

-----------------------------------------------------------------------------
(* STEP 8: the export *)

\* lines 235-237: the directory is there already, or makedirs makes it, or
\* makedirs raises
MakeOutputDir ==
    /\ pc = "mkdir"
    /\ \/ /\ output_dir' = TRUE
          /\ pc' = "export"
          /\ UNCHANGED <<error, failed_step, exit_status>>
       \/ /\ Raise("OSError")
          /\ UNCHANGED output_dir
    /\ UNCHANGED <<file_state, source, data, data_2025, df, skipped_dtype,
                   tablevars, kpi, exported>>

\* the keys of the dict tables, in insertion order
TableNames ==
    <<"daily_summary.csv", "artist_summary.csv", "track_summary.csv",
      "hourly_pattern.csv", "weekly_pattern.csv", "monthly_progression.csv",
      "platform_distribution.csv", "raw_data_2025.csv">>

\* the values of the dict tables
tables ==
    <<daily_summary, artist_summary, track_summary, hourly_pattern,
      weekly_pattern, monthly_progression, platform_dist, df>>

\* the next file of the loop that has not been written
NextTable == Len(exported) + 1

\* the loop with the write in a try/except that goes on to the next table:
\* a failed write is skipped and the following table is written
ExportTableSwallow ==
    /\ pc = "export"
    /\ LET last == IF exported = <<>> THEN 0
                   ELSE CHOOSE k \in 1..Len(TableNames) :
                           TableNames[k] = exported[Len(exported)][1]
           pos == last + 1
           write(k) == Append(exported, <<TableNames[k], tables[k]>>)
           finish == pc' = "done" /\ exit_status' = 0
           goon == pc' = "export" /\ UNCHANGED exit_status
       IN  \/ exported' = write(pos) /\ (IF pos = Len(TableNames) THEN finish ELSE goon)
           \/ /\ pos < Len(TableNames)
              /\ exported' = write(pos + 1)
              /\ (IF pos + 1 = Len(TableNames) THEN finish ELSE goon)
           \/ pos = Len(TableNames) /\ UNCHANGED exported /\ finish
    /\ UNCHANGED <<error, failed_step>>
    /\ UNCHANGED <<file_state, source, data, data_2025, df, skipped_dtype,
                   tablevars, kpi, output_dir>>

\* one turn of the loop of lines 251-254: to_csv writes the file, or raises
ExportTable ==
    /\ pc = "export"
    /\ \/ /\ exported' = Append(exported, <<TableNames[NextTable], tables[NextTable]>>)
          /\ IF NextTable = Len(TableNames)
             THEN pc' = "done" /\ exit_status' = 0
             ELSE pc' = "export" /\ UNCHANGED exit_status
          /\ UNCHANGED <<error, failed_step>>
       \/ /\ Raise("OSError")
          /\ UNCHANGED exported
    /\ UNCHANGED <<file_state, source, data, data_2025, df, skipped_dtype,
                   tablevars, kpi, output_dir>>

-----------------------------------------------------------------------------
Next ==
    \/ Load
    \/ Filter
    \/ CreateDataFrame
    \/ Clean
    \/ Enrich
    \/ Aggregate
    \/ KPIs
    \/ MakeOutputDir
    \/ ExportTable

Spec == Init /\ [][Next]_vars

-----------------------------------------------------------------------------
(* The phases of a run, read off pc and failed_step *)

\* the year filter ran to its end
FilterDone ==
    \/ pc \in {"dataframe", "clean", "enrich", "aggregate", "kpi", "mkdir",
               "export", "done"}
    \/ pc = "aborted" /\ failed_step \notin {"load", "filter"}

\* df holds the output of STEP 4, not yet enriched
HasNormalizedRows == pc = "enrich" \/ (pc = "aborted" /\ failed_step = "enrich")

\* df holds the enriched events
HasEnrichedRows ==
    \/ pc \in {"aggregate", "kpi", "mkdir", "export", "done"}
    \/ pc = "aborted" /\ failed_step \in {"mkdir", "export"}

\* the seven tables have been computed
HasTables ==
    \/ pc \in {"kpi", "mkdir", "export", "done"}
    \/ pc = "aborted" /\ failed_step \in {"mkdir", "export"}

\* the rows of the exported raw set, if it was written
RawExport ==
    IF Len(exported) = Len(TableNames) THEN exported[Len(TableNames)][2]
    ELSE <<>>

FirstFour(ts) == Prefix(Chars[ts], 4)

HasTimestamp(r) == r.ts \notin {NULL, ABSENT}

-----------------------------------------------------------------------------
(* C1 *)

InYear2025(r) == HasTimestamp(r) /\ FirstFour(r.ts) = <<"2", "0", "2", "5">>

\* C1: once the year filter has run, data_2025 is exactly the subsequence of
\* the loaded events that have a timestamp whose first four characters are
\* 2025, in their original order; every enriched event and every row of the
\* exported raw set has the year 2025.
C1_YearFilterExact ==
    /\ FilterDone => data_2025 = SelectSeq(data, InYear2025)
    /\ HasEnrichedRows =>
          \A i \in 1..Len(df) :
             df[i].datetime.year = 2025 /\ df[i].date \div 10000 = 2025
    /\ \A i \in 1..Len(RawExport) : RawExport[i].datetime.year = 2025

\* a finished run that kept two different events in their order and left
\* out an earlier one
C1_Witness ==
    /\ pc = "done"
    /\ Len(data) = 3 /\ Len(data_2025) = 2
    /\ ~InYear2025(data[1])
    /\ data_2025[1] = data[2] /\ data_2025[2] = data[3] /\ data[2] # data[3]
    /\ Len(RawExport) = 2

-----------------------------------------------------------------------------
(* C2 *)

YearUnparsable(r) == ~HasTimestamp(r) \/ ~PyInt(FirstFour(r.ts)).ok

\* C2: an event whose timestamp is missing or whose first four characters do
\* not parse as a year is left out by the year filter and the run goes on:
\* the filter stage never aborts the run.
C2_BadTimestampDropped ==
    /\ ~(pc = "aborted" /\ failed_step = "filter")
    /\ FilterDone => \A i \in 1..Len(data_2025) : ~YearUnparsable(data_2025[i])

-----------------------------------------------------------------------------
(* C3 *)

\* C3: when the source file does not exist the run ends at once with a
\* non-zero exit status: nothing is filtered, cleaned, enriched, aggregated
\* or exported.
C3_MissingSourceExitsNonZero ==
    (file_state = "missing" /\ pc # "load") =>
        /\ exit_status \notin {-1, 0}
        /\ error = "FileNotFoundError"
        /\ data = <<>> /\ data_2025 = <<>> /\ df = <<>>
        /\ ~kpi.computed
        /\ exported = <<>>

-----------------------------------------------------------------------------
(* C4 *)

Named(r) ==
    /\ r.master_metadata_track_name \notin {NULL, ABSENT}
    /\ r.master_metadata_album_artist_name \notin {NULL, ABSENT}

\* the loaded records of 2025 that have both names
NamedInputs ==
    Cardinality({i \in 1..Len(data) : InYear2025(data[i]) /\ Named(data[i])})

\* C4: every event that survives the cleaning has a track name and an artist
\* name; the records that lack one are counted in no row of the seven
\* tables and in no KPI, and are not in the exported raw set.
C4_NamesPresent ==
    /\ HasNormalizedRows =>
          \A i \in 1..Len(df) :
             /\ df[i].master_metadata_track_name \notin {NULL, NAN}
             /\ df[i].master_metadata_album_artist_name \notin {NULL, NAN}
    /\ HasEnrichedRows =>
          \A i \in 1..Len(df) :
             df[i].track_name \notin {NULL, NAN}
             /\ df[i].artist_name \notin {NULL, NAN}
    /\ HasTables =>
          /\ Sum(daily_summary, "tracks_played") <= NamedInputs
          /\ Sum(artist_summary, "plays") <= NamedInputs
          /\ Sum(track_summary, "play_count") <= NamedInputs
          /\ Sum(hourly_pattern, "track_count") <= NamedInputs
          /\ Sum(weekly_pattern, "track_count") <= NamedInputs
          /\ Sum(monthly_progression, "tracks_played") <= NamedInputs
          /\ Sum(platform_dist, "track_count") <= NamedInputs
          /\ \A i \in 1..Len(artist_summary) :
                artist_summary[i].artist_name \notin {NULL, NAN}
          /\ \A i \in 1..Len(track_summary) :
                /\ track_summary[i].track_name \notin {NULL, NAN}
                /\ track_summary[i].artist_name \notin {NULL, NAN}
    /\ kpi.computed => kpi.total_tracks <= NamedInputs
    /\ \A i \in 1..Len(RawExport) :
          RawExport[i].track_name \notin {NULL, NAN}
          /\ RawExport[i].artist_name \notin {NULL, NAN}

\* a finished run whose input had an event of 2025 without artist, one
\* without track, and one with both
C4_Witness ==
    /\ pc = "done"
    /\ Len(data_2025) = 3
    /\ \E i \in 1..3 : data_2025[i].master_metadata_album_artist_name = NULL
                        /\ data_2025[i].master_metadata_track_name # NULL
    /\ \E i \in 1..3 : data_2025[i].master_metadata_track_name = NULL
                        /\ data_2025[i].master_metadata_album_artist_name # NULL
    /\ Len(RawExport) = 1

-----------------------------------------------------------------------------
(* C5 *)

\* C5: for every enriched event was_completed and was_skipped are 0 or 1 and
\* add up to 1.
C5_FlagsComplementary ==
    HasEnrichedRows =>
        \A i \in 1..Len(df) :
            /\ df[i].was_completed \in {0, 1}
            /\ df[i].was_skipped \in {0, 1}
            /\ df[i].was_completed + df[i].was_skipped = 1

-----------------------------------------------------------------------------
(* C6 *)

\* C6: the track_count of the rows of the platform table add up to the
\* number of enriched events, the KPI total_tracks.
C6_PlatformCountsSumToTotal ==
    (HasTables /\ kpi.computed) =>
        Sum(platform_dist, "track_count") = kpi.total_tracks

-----------------------------------------------------------------------------
(* C7 *)

\* C7: when no loaded event is of 2025 the run does not abort on its way to
\* the KPIs, and the KPI avg_daily_minutes is NaN.
C7_EmptyYearReachesKpi ==
    (FilterDone /\ data_2025 = <<>>) =>
        /\ ~(pc = "aborted" /\ failed_step \in
                {"dataframe", "clean", "enrich", "aggregate", "kpi"})
        /\ kpi.computed => kpi.avg_daily_minutes.nan

-----------------------------------------------------------------------------
(* C8 *)

\* the events of 2025 that have both names, as rows of twelve fields
NullFiltered ==
    LET named == SelectSeq(data_2025, Named)
    IN  [i \in 1..Len(named) |-> [c \in DOMAIN BaseRecord |-> named[i][c]]]

\* the indices of the rows that no earlier row equals
FirstOccurrences(rows) ==
    {i \in 1..Len(rows) : \A j \in 1..(i - 1) : rows[j] # rows[i]}

\* C8: the normalized collection is the null-filtered input with only the
\* first occurrence of each combination of the twelve fields, in the
\* original order; no two normalized events are equal in all fields, and
\* the Normalizer applied to its own output gives it back.
C8_FirstOccurrencesKept ==
    HasNormalizedRows =>
        LET keep == SortedRanks(FirstOccurrences(NullFiltered))
        IN  /\ df = [k \in 1..Len(keep) |-> NullFiltered[keep[k]]]
            /\ \A i, j \in 1..Len(df) : i # j => df[i] # df[j]
            /\ drop_duplicates(
                  notna(notna(df, "master_metadata_track_name"),
                        "master_metadata_album_artist_name")) = df

\* the cleaning has dropped the third event, a copy of the first, and kept
\* the second, a different one, behind the first
C8_Witness ==
    /\ pc = "enrich"
    /\ Len(data_2025) = 3 /\ Len(df) = 2
    /\ Named(data_2025[1]) /\ Named(data_2025[2])
    /\ data_2025[3] = data_2025[1] /\ data_2025[2] # data_2025[1]
    /\ df[1].ts = data_2025[1].ts /\ df[2] # df[1]

-----------------------------------------------------------------------------
(* C9 *)

C9_Order ==
    <<"daily_summary.csv", "artist_summary.csv", "track_summary.csv",
      "hourly_pattern.csv", "weekly_pattern.csv", "monthly_progression.csv",
      "platform_distribution.csv", "raw_data_2025.csv">>

C9_State ==
    /\ Len(exported) <= 8
    /\ \A k \in 1..Len(exported) : exported[k][1] = C9_Order[k]
    /\ exported # <<>> => HasTables /\ kpi.computed
    /\ pc = "done" => Len(exported) = 8 /\ exit_status = 0
    /\ (pc = "aborted" /\ failed_step = "export") =>
          Len(exported) < 8 /\ exit_status = 1
    /\ (exit_status # -1) => (Len(exported) = 8 \/ pc \in {"aborted", "exited"})

C9_Step ==
    /\ exported' # exported =>
          /\ pc = "export" /\ kpi.computed
          /\ exported' = Append(exported, <<C9_Order[Len(exported) + 1],
                                             tables[Len(exported) + 1]>>)
          /\ UNCHANGED <<tablevars, kpi, df>>
    /\ pc = "aborted" => UNCHANGED exported

\* C9: files are written only after the seven tables and the KPIs have been
\* computed, one at a time in the order daily, artist, track, hourly,
\* weekly, monthly, platform, raw; a failed write aborts the run and
\* nothing is written after it; a run that ends has written all eight
\* files or has aborted.
C9_ExportInOrderOrAbort == [](C9_State) /\ [][C9_Step]_vars

\* the write of the fourth table has failed after three files were written
C9_Witness ==
    /\ pc = "aborted" /\ failed_step = "export" /\ error = "OSError"
    /\ Len(exported) = 3
    /\ exported[3][1] = "track_summary.csv"

-----------------------------------------------------------------------------
(* C10 *)

MondayFirst ==
    "Monday" :> 0 @@ "Tuesday" :> 1 @@ "Wednesday" :> 2 @@ "Thursday" :> 3 @@
    "Friday" :> 4 @@ "Saturday" :> 5 @@ "Sunday" :> 6

\* C10: the weekly table has one row for each weekday name of the enriched
\* events and its rows are in the order Monday .. Sunday, whatever the
\* order of the events.
C10_WeeklyMondayToSunday ==
    HasTables =>
        /\ {weekly_pattern[i].day_name : i \in 1..Len(weekly_pattern)}
              = {df[i].day_name : i \in 1..Len(df)}
        /\ \A i, j \in 1..Len(weekly_pattern) :
              i < j => MondayFirst[weekly_pattern[i].day_name]
                          < MondayFirst[weekly_pattern[j].day_name]

\* the events came Friday first, then Monday: the table has Monday first
C10_Witness ==
    /\ HasTables
    /\ Len(df) >= 2
    /\ df[1].day_name = "Friday" /\ df[2].day_name = "Monday"
    /\ Len(weekly_pattern) = 2
    /\ weekly_pattern[1].day_name = "Monday"
    /\ weekly_pattern[2].day_name = "Friday"

====
